---- MODULE Spec2Model ----
(***************************************************************************)
(* The Sec-WebSocket-Accept header of src/header/accept.rs.                *)
(*                                                                         *)
(* A text (&str, String) is the sequence of its bytes (ASCII codes), a     *)
(* byte buffer is a sequence of numbers in 0..255, and a WebSocketAccept   *)
(* is the sequence of the 20 bytes of its array.  Each handshake is a      *)
(* thread that calls new, from_str, serialize and fmt_header; a call       *)
(* advances in the steps of its code, between which the other handshakes   *)
(* run.                                                                    *)
(***************************************************************************)
EXTENDS Integers, Sequences, FiniteSets, TLC

VARIABLES pc, op, arg, buf, ret

vars == <<pc, op, arg, buf, ret>>

(***************************************************************************)
(* Bounds of the model.                                                    *)
(***************************************************************************)
NumHandshakes == 2
NumKeys == 2

Handshakes == 1..NumHandshakes

(***************************************************************************)
(* Texts of the source, as bytes.                                          *)
(***************************************************************************)
\* "258EAFA5-E914-47DA-95CA-C5AB0DC85B11"
MAGIC_GUID == <<50, 53, 56, 69, 65, 70, 65, 53, 45, 69, 57, 49, 52, 45, 52, 55, 68, 65, 45, 57, 53, 67, 65, 45, 67, 53, 65, 66, 48, 68, 67, 56, 53, 66, 49, 49>>

\* "dGhlIHNhbXBsZSBub25jZQ=="
TEST_KEY == <<100, 71, 104, 108, 73, 72, 78, 104, 98, 88, 66, 115, 90, 83, 66, 117, 98, 50, 53, 106, 90, 81, 61, 61>>

\* "s3pPLMBiTxaQ9kYGzzhZRbK+xOo="
TEST_ACCEPT == <<115, 51, 112, 80, 76, 77, 66, 105, 84, 120, 97, 81, 57, 107, 89, 71, 122, 122, 104, 90, 82, 98, 75, 43, 120, 79, 111, 61>>

\* "YSBzaW1wbGUgc2FtcGwgbm9uY2U=", the 20 bytes of "a simple sampl nonce"
TEST_20_BYTES == <<89, 83, 66, 122, 97, 87, 49, 119, 98, 71, 85, 103, 99, 50, 70, 116, 99, 71, 119, 103, 98, 109, 57, 117, 89, 50, 85, 61>>

\* "YSBzaG9ydCBub25jZQ==", the 13 bytes of "a short nonce"
TEST_SHORT == <<89, 83, 66, 122, 97, 71, 57, 121, 100, 67, 66, 117, 98, 50, 53, 106, 90, 81, 61, 61>>

\* "YSByZWFsbHkgbWFsaWNpb3VzIG5vbmNl", the 24 bytes of "a really malicious nonce"
TEST_LONG == <<89, 83, 66, 121, 90, 87, 70, 115, 98, 72, 107, 103, 98, 87, 70, 115, 97, 87, 78, 112, 98, 51, 86, 122, 73, 71, 53, 118, 98, 109, 78, 108>>

ERR_LENGTH == "Sec-WebSocket-Accept must be 20 bytes"
\* Variant: the message of the other error.
ERR_INVALID_copied == "Sec-WebSocket-Accept must be 20 bytes"

ERR_INVALID == "Invalid Sec-WebSocket-Accept"

ACCEPT_LEN == 20

(***************************************************************************)
(* base64::encode and base64::decode (standard alphabet, '=' padding).     *)
(***************************************************************************)
PAD == 61

\* Variant: the alphabet of URLs, '-' and '_' for '+' and '/'.
Symbol_url_safe(v) ==
  IF v < 26 THEN 65 + v
  ELSE IF v < 52 THEN 97 + (v - 26)
  ELSE IF v < 62 THEN 48 + (v - 52)
  ELSE IF v = 62 THEN 45
  ELSE 95

\* The symbol of a 6-bit value: A-Z, a-z, 0-9, '+', '/'.
Symbol(v) ==
  IF v < 26 THEN 65 + v
  ELSE IF v < 52 THEN 97 + (v - 26)
  ELSE IF v < 62 THEN 48 + (v - 52)
  ELSE IF v = 62 THEN 43
  ELSE 47

IsSymbol(c) ==
  \/ c \in 65..90
  \/ c \in 97..122
  \/ c \in 48..57
  \/ c = 43
  \/ c = 47

\* Variant: '+' and '/' exchanged.
Val6_exchanged(c) ==
  IF c \in 65..90 THEN c - 65
  ELSE IF c \in 97..122 THEN (c - 97) + 26
  ELSE IF c \in 48..57 THEN (c - 48) + 52
  ELSE IF c = 43 THEN 63
  ELSE 62

\* The 6-bit value of a symbol.
Val6(c) ==
  IF c \in 65..90 THEN c - 65
  ELSE IF c \in 97..122 THEN (c - 97) + 26
  ELSE IF c \in 48..57 THEN (c - 48) + 52
  ELSE IF c = 43 THEN 62
  ELSE 63

\* Three bytes give four symbols; a last group of one or two bytes is
\* completed with '='.
Encode(bytes) ==
  LET n == Len(bytes)
      at(i) == IF i <= n THEN bytes[i] ELSE 0
  IN [j \in 1..(4 * ((n + 2) \div 3)) |->
        LET g == (j - 1) \div 4
            p == (j - 1) % 4
            b0 == at((3 * g) + 1)
            b1 == at((3 * g) + 2)
            b2 == at((3 * g) + 3)
        IN IF p = 0 THEN Symbol(b0 \div 4)
           ELSE IF p = 1 THEN Symbol(((b0 % 4) * 16) + (b1 \div 16))
           ELSE IF p = 2 THEN (IF (3 * g) + 2 > n THEN PAD
                               ELSE Symbol(((b1 % 16) * 4) + (b2 \div 64)))
           ELSE (IF (3 * g) + 3 > n THEN PAD ELSE Symbol(b2 % 64))]

\* The decoding of a text: [ok |-> TRUE, bytes |-> the bytes] or
\* [ok |-> FALSE] for a byte that is no symbol, a length that no encoding
\* has, a padding that is not the one of the last group, or a last symbol
\* with unused bits set.
Decode(text) ==
  LET n == Len(text)
      pads == IF n >= 1 /\ text[n] = PAD
              THEN (IF n >= 2 /\ text[n - 1] = PAD THEN 2 ELSE 1)
              ELSE 0
      m == n - pads
      rem == m % 4
      symbolsOk == \A i \in 1..m : IsSymbol(text[i])
      padsOk == pads = (4 - rem) % 4
      trailing == IF rem = 2 THEN Val6(text[m]) % 16
                  ELSE IF rem = 3 THEN Val6(text[m]) % 4
                  ELSE 0
      trailingOk == trailing = 0
      nbytes == (m * 3) \div 4
      bytes == [j \in 1..nbytes |->
                 LET g == (j - 1) \div 3
                     p == (j - 1) % 3
                     s1 == Val6(text[(4 * g) + 1])
                     s2 == Val6(text[(4 * g) + 2])
                     s3 == Val6(text[(4 * g) + 3])
                     s4 == Val6(text[(4 * g) + 4])
                 IN IF p = 0 THEN (s1 * 4) + (s2 \div 16)
                    ELSE IF p = 1 THEN ((s2 % 16) * 16) + (s3 \div 4)
                    ELSE ((s3 % 4) * 64) + s4]
  IN IF symbolsOk /\ rem # 1 /\ padsOk /\ trailingOk
     THEN [ok |-> TRUE, bytes |-> bytes]
     ELSE [ok |-> FALSE, bytes |-> <<>>]

(***************************************************************************)
(* Sha1: update(bytes) then digest().bytes().  A 32-bit word is the pair   *)
(* <<high 16 bits, low 16 bits>>, so that every sum stays mod 2^32.        *)
(***************************************************************************)
H16 == 65536

RECURSIVE And16(_, _)
And16(a, b) ==
  IF a = 0 \/ b = 0 THEN 0
  ELSE ((a % 2) * (b % 2)) + (2 * And16(a \div 2, b \div 2))

Xor16(a, b) == (a + b) - (2 * And16(a, b))

And32(u, v) == <<And16(u[1], v[1]), And16(u[2], v[2])>>
Xor32(u, v) == <<Xor16(u[1], v[1]), Xor16(u[2], v[2])>>
Not32(u) == <<(H16 - 1) - u[1], (H16 - 1) - u[2]>>

\* u | v for words with no bit in common.
Or32(u, v) == <<u[1] + v[1], u[2] + v[2]>>

\* Rotation to the left by n bits, 0 < n < 16.
RotL(u, n) ==
  <<((u[1] * (2 ^ n)) % H16) + (u[2] \div (2 ^ (16 - n))),
    ((u[2] * (2 ^ n)) % H16) + (u[1] \div (2 ^ (16 - n)))>>

\* Rotation to the left by 30 bits (to the right by 2).
RotL30(u) ==
  <<(u[1] \div 4) + ((u[2] % 4) * 16384),
    (u[2] \div 4) + ((u[1] % 4) * 16384)>>

\* Wrapping sum of five words.
Add5(p, q, r, s, t) ==
  LET lo == p[2] + q[2] + r[2] + s[2] + t[2]
      hi == p[1] + q[1] + r[1] + s[1] + t[1] + (lo \div H16)
  IN <<hi % H16, lo % H16>>

Add2(p, q) == Add5(p, q, <<0, 0>>, <<0, 0>>, <<0, 0>>)

\* The message, 0x80, zeros up to 56 mod 64, and the bit length on 8 bytes.
Sha1Pad(msg) ==
  LET l == Len(msg)
      z == (119 - (l % 64)) % 64
      bits == 8 * l
  IN msg \o <<128>> \o [i \in 1..z |-> 0]
         \o <<0, 0, 0, 0, (bits \div 16777216) % 256, (bits \div 65536) % 256,
              (bits \div 256) % 256, bits % 256>>

\* The 16 big-endian words of block k (from 0) of the padded message.
BlockWords(p, k) ==
  [i \in 1..16 |->
     LET o == (64 * k) + (4 * (i - 1))
     IN <<(p[o + 1] * 256) + p[o + 2], (p[o + 3] * 256) + p[o + 4]>>]

\* The message schedule: 80 words.
RECURSIVE Expand(_)
Expand(w) ==
  IF Len(w) = 80 THEN w
  ELSE LET t == Len(w) + 1
       IN Expand(Append(w, RotL(Xor32(Xor32(w[t - 3], w[t - 8]),
                                      Xor32(w[t - 14], w[t - 16])), 1)))

Sha1F(t, b, c, d) ==
  IF t < 20 THEN Or32(And32(b, c), And32(Not32(b), d))
  ELSE IF t < 40 THEN Xor32(Xor32(b, c), d)
  ELSE IF t < 60 THEN Or32(And32(b, c), And32(d, Xor32(b, c)))
  ELSE Xor32(Xor32(b, c), d)

\* 0x5A827999, 0x6ED9EBA1, 0x8F1BBCDC, 0xCA62C1D6
Sha1K(t) ==
  IF t < 20 THEN <<23170, 31129>>
  ELSE IF t < 40 THEN <<28377, 60321>>
  ELSE IF t < 60 THEN <<36635, 48348>>
  ELSE <<51810, 49622>>

\* Rounds t..79 on the state st = <<a, b, c, d, e>>.  (The test on Len(st)
\* makes TLC evaluate the state of a round before it starts the next.)
RECURSIVE Rounds(_, _, _)
Rounds(st, w, t) ==
  IF t = 80 \/ Len(st) # 5 THEN st
  ELSE Rounds(<<Add5(RotL(st[1], 5), Sha1F(t, st[2], st[3], st[4]), st[5],
                     Sha1K(t), w[t + 1]),
                st[1], RotL30(st[2]), st[3], st[4]>>, w, t + 1)

RECURSIVE Process(_, _, _)
Process(h, p, k) ==
  IF 64 * k >= Len(p) THEN h
  ELSE LET r == Rounds(h, Expand(BlockWords(p, k)), 0)
       IN Process([i \in 1..5 |-> Add2(h[i], r[i])], p, k + 1)

\* 0x67452301, 0xEFCDAB89, 0x98BADCFE, 0x10325476, 0xC3D2E1F0
Sha1Init == <<<<26437, 8961>>, <<61389, 43913>>, <<39098, 56574>>,
              <<4146, 21622>>, <<50130, 57840>>>>

WordBytes(u) == <<u[1] \div 256, u[1] % 256, u[2] \div 256, u[2] % 256>>

\* Variant: four words of the state only.
DigestBytes_four_words(h) ==
  WordBytes(h[1]) \o WordBytes(h[2]) \o WordBytes(h[3]) \o WordBytes(h[4])

DigestBytes(h) ==
  WordBytes(h[1]) \o WordBytes(h[2]) \o WordBytes(h[3]) \o WordBytes(h[4])
    \o WordBytes(h[5])

Sha1(msg) == DigestBytes(Process(Sha1Init, Sha1Pad(msg), 0))

(***************************************************************************)
(* Inputs.                                                                 *)
(***************************************************************************)
\* n bytes that differ from one position to the next.
Pattern(n, s) == [i \in 1..n |-> ((s * 67) + (i * ((2 * s) + 29))) % 256]

Replace(text, i, c) == [text EXCEPT ![i] = c]

\* A WebSocketKey, of which this file uses serialize() only: the nonce and
\* its text.
KeyPool ==
  {[text |-> TEST_KEY]} \cup {[text |-> Encode(Pattern(16, s))] : s \in 2..NumKeys}

LengthCases == {19, 21}

\* Texts that decode to 20 bytes, to fewer and to more; the last one is
\* "YSBzaW1wbGUgc2FtcGwgbm9uY2Y=", TEST_20_BYTES but for its last byte.
DecodableTexts ==
  {TEST_ACCEPT, TEST_20_BYTES, TEST_SHORT, TEST_LONG}
    \cup {Encode(Pattern(n, 1)) : n \in LengthCases}
    \cup {Replace(TEST_20_BYTES, 27, 89)}

\* Texts of TEST_ACCEPT with one defect: a '*', a '=' in the middle, a
\* second '=', no '=', and a last symbol ('p' for 'o') with unused bits set;
\* and TEST_SHORT with a '*'.
DefectiveTexts ==
  {Replace(TEST_ACCEPT, 5, 42),
   Replace(TEST_SHORT, 3, 42),
   Replace(TEST_ACCEPT, 10, PAD),
   TEST_ACCEPT \o <<PAD>>,
   SubSeq(TEST_ACCEPT, 1, 27),
   Replace(TEST_ACCEPT, 27, 112)}

TextPool == DecodableTexts \cup DefectiveTexts

(***************************************************************************)
(* Values a call returns.                                                  *)
(***************************************************************************)
NoRet == [kind |-> "None", val |-> <<>>]
Ok(array) == [kind |-> "Ok", val |-> array]
ProtocolError(msg) == [kind |-> "Err", val |-> msg]
String(text) == [kind |-> "String", val |-> text]
Panic == [kind |-> "Panic", val |-> <<>>]

\* The call of h has returned, and its caller holds ret[h].
Done(h) == pc[h] = "idle" /\ op[h] # "none"

\* The tokens and the texts that callers hold.
HeldTokens == {ret[g].val : g \in {x \in Handshakes : Done(x) /\ ret[x].kind = "Ok"}}
HeldTexts == {ret[g].val : g \in {x \in Handshakes : Done(x) /\ ret[x].kind = "String"}}

\* Variant: one buffer that all the calls use.
BufOf_shared(h) == 1

\* The local buffers of a call of h (concat_key, vec).
BufOf(h) == h

(***************************************************************************)
(* The functions of accept.rs.                                             *)
(***************************************************************************)
WebSocketKey_serialize(key) == key.text

\* Variant: the GUID first.
ConcatKey_guid_first(key) == MAGIC_GUID \o WebSocketKey_serialize(key)

\* new: concat_key
ConcatKey(key) == WebSocketKey_serialize(key) \o MAGIC_GUID

\* The digests of the buffers that new hashes, computed once.
Sha1Table == [m \in {ConcatKey(key) : key \in KeyPool} |-> Sha1(m)]

Digest(msg) == IF msg \in DOMAIN Sha1Table THEN Sha1Table[msg] ELSE Sha1(msg)

\* Variant: vec.len() < 20
WrongLength_less(vec) == Len(vec) < ACCEPT_LEN

\* from_str: vec.len() != 20
WrongLength(vec) == Len(vec) # ACCEPT_LEN

\* Variant: array[..19].clone_from_slice(&vec[..19])
CopyToArray_19(vec) ==
  IF Len(vec) < ACCEPT_LEN - 1 THEN Panic
  ELSE Ok([i \in 1..ACCEPT_LEN |-> IF i < ACCEPT_LEN THEN vec[i] ELSE 0])

\* from_str: array = [0u8; 20]; array[..20].clone_from_slice(&vec[..20])
CopyToArray(vec) ==
  IF Len(vec) < ACCEPT_LEN THEN Panic
  ELSE Ok([i \in 1..ACCEPT_LEN |-> vec[i]])

\* serialize: base64::encode of the array of *self
serialize(self) == Encode(self)

\* fmt_header: write!(fmt, "{}", text)
WriteDisplay(out, text) == out \o text

\* Variant: the last byte is not compared.
eq_19(a, b) == \A i \in 1..(ACCEPT_LEN - 1) : a[i] = b[i]

\* #[derive(PartialEq)] on WebSocketAccept([u8; 20])
eq(a, b) == \A i \in 1..ACCEPT_LEN : a[i] = b[i]

Init ==
  /\ pc = [h \in Handshakes |-> "idle"]
  /\ op = [h \in Handshakes |-> "none"]
  /\ arg = [h \in Handshakes |-> <<>>]
  /\ buf = [h \in Handshakes |-> <<>>]
  /\ ret = [h \in Handshakes |-> NoRet]

\* A call of o on a starts: its local buffer is b, it is at step p, and r
\* is what it has returned, if it has.
Begin(h, o, a, b, p, r) ==
  /\ pc[h] = "idle"
  /\ op' = [op EXCEPT ![h] = o]
  /\ arg' = [arg EXCEPT ![h] = a]
  /\ buf' = [buf EXCEPT ![BufOf(h)] = b]
  /\ pc' = [pc EXCEPT ![h] = p]
  /\ ret' = [ret EXCEPT ![h] = r]

\* Variant: the locals of all the calls are dropped.
Return_drop_all(h, r) ==
  /\ ret' = [ret EXCEPT ![h] = r]
  /\ buf' = [g \in DOMAIN buf |-> <<>>]
  /\ pc' = [pc EXCEPT ![h] = "idle"]
  /\ UNCHANGED <<op, arg>>

\* A call returns r: its locals are dropped.
Return(h, r) ==
  /\ ret' = [ret EXCEPT ![h] = r]
  /\ buf' = [buf EXCEPT ![BufOf(h)] = <<>>]
  /\ pc' = [pc EXCEPT ![h] = "idle"]
  /\ UNCHANGED <<op, arg>>

\* WebSocketAccept::new, up to concat_key.push_str(MAGIC_GUID)
new_concat(h, key) ==
  Begin(h, "new", key, ConcatKey(key), "new_digest", NoRet)

\* WebSocketAccept::new, from Sha1::new() to the end
new_digest(h) ==
  /\ pc[h] = "new_digest"
  /\ Return(h, Ok(Digest(buf[BufOf(h)])))

\* from_str: base64::decode and the test of the length
from_str_decode(h, accept) ==
  LET d == Decode(accept)
  IN IF ~d.ok
     THEN Begin(h, "from_str", accept, <<>>, "idle", ProtocolError(ERR_INVALID))
     ELSE IF WrongLength(d.bytes)
     THEN Begin(h, "from_str", accept, <<>>, "idle", ProtocolError(ERR_LENGTH))
     ELSE Begin(h, "from_str", accept, d.bytes, "from_str_copy", NoRet)

\* from_str: the copy into the array and Ok(WebSocketAccept(array))
from_str_copy(h) ==
  /\ pc[h] = "from_str_copy"
  /\ Return(h, CopyToArray(buf[BufOf(h)]))

\* serialize
serialize_call(h, self) ==
  Begin(h, "serialize", self, <<>>, "idle", String(serialize(self)))

\* fmt_header, that writes the String serialize returns
fmt_header(h, self) ==
  Begin(h, "fmt_header", self, <<>>, "idle",
        String(WriteDisplay(<<>>, serialize(self))))

NewConcat == \E h \in Handshakes, key \in KeyPool : new_concat(h, key)
NewDigest == \E h \in Handshakes : new_digest(h)
FromStrDecode == \E h \in Handshakes, accept \in TextPool \cup HeldTexts : from_str_decode(h, accept)
FromStrCopy == \E h \in Handshakes : from_str_copy(h)
Serialize == \E h \in Handshakes, self \in HeldTokens : serialize_call(h, self)
FmtHeader == \E h \in Handshakes, self \in HeldTokens : fmt_header(h, self)

Next ==
  \/ NewConcat
  \/ NewDigest
  \/ FromStrDecode
  \/ FromStrCopy
  \/ Serialize
  \/ FmtHeader

Spec == Init /\ [][Next]_vars

(***************************************************************************)
(* Properties.                                                             *)
(***************************************************************************)
SameResult(r1, r2) == r1.kind = r2.kind /\ r1.val = r2.val

IsErr(r, msg) == r.kind = "Err" /\ r.val = msg

Parsed(h) == Done(h) /\ op[h] = "from_str"
Derived(h) == Done(h) /\ op[h] = "new"
Serialized(h) == Done(h) /\ op[h] = "serialize"
Formatted(h) == Done(h) /\ op[h] = "fmt_header"

\* C1: when a call of serialize on a token t has returned a text and a call
\* of from_str on that text has returned, from_str has returned Ok of a
\* token whose bytes are those of t.
RoundTrip ==
  \A g \in Handshakes, h \in Handshakes :
    (Serialized(g) /\ Parsed(h) /\ arg[h] = ret[g].val)
      => (ret[h].kind = "Ok" /\ ret[h].val = arg[g])

\* A token that new has derived from a key other than the one of the test
\* has been serialized, and from_str has returned it from the text.
RoundTripWitness ==
  \E g \in Handshakes, h \in Handshakes :
    /\ Serialized(g) /\ Parsed(h) /\ arg[h] = ret[g].val
    /\ ret[h].kind = "Ok" /\ ret[h].val = arg[g]
    /\ ret[g].val # TEST_ACCEPT
    /\ ret[g].val \notin TextPool

\* C2: a call of from_str on a text that decodes to a number of bytes other
\* than 20 returns the error "Sec-WebSocket-Accept must be 20 bytes".
WrongLengthRejected ==
  \A h \in Handshakes :
    (Parsed(h) /\ Decode(arg[h]).ok /\ Len(Decode(arg[h]).bytes) # 20)
      => IsErr(ret[h], "Sec-WebSocket-Accept must be 20 bytes")

\* from_str has returned that error for a text of fewer than 20 bytes and
\* for one of more.
WrongLengthWitness ==
  \E g \in Handshakes, h \in Handshakes :
    /\ Parsed(g) /\ Decode(arg[g]).ok /\ Len(Decode(arg[g]).bytes) < 20
    /\ IsErr(ret[g], "Sec-WebSocket-Accept must be 20 bytes")
    /\ Parsed(h) /\ Decode(arg[h]).ok /\ Len(Decode(arg[h]).bytes) = 24
    /\ IsErr(ret[h], "Sec-WebSocket-Accept must be 20 bytes")

\* C3: a call of from_str on a text that does not decode (in particular one
\* with a byte that is neither a symbol nor '=') returns the error "Invalid
\* Sec-WebSocket-Accept", which is not the error of a wrong length; and the
\* error of a wrong length is returned for texts that decode only.
MalformedRejected ==
  \A h \in Handshakes :
    Parsed(h) =>
      /\ (\E i \in 1..Len(arg[h]) : ~IsSymbol(arg[h][i]) /\ arg[h][i] # PAD)
           => IsErr(ret[h], "Invalid Sec-WebSocket-Accept")
      /\ ~Decode(arg[h]).ok
           => (/\ IsErr(ret[h], "Invalid Sec-WebSocket-Accept")
               /\ ~IsErr(ret[h], "Sec-WebSocket-Accept must be 20 bytes"))
      /\ IsErr(ret[h], "Sec-WebSocket-Accept must be 20 bytes")
           => Decode(arg[h]).ok

\* from_str has returned the error for a text of 28 bytes whose padding is
\* wrong and for a shorter one with a '*'.
MalformedWitness ==
  \E g \in Handshakes, h \in Handshakes :
    /\ Parsed(g) /\ arg[g] = Replace(TEST_ACCEPT, 10, PAD)
    /\ IsErr(ret[g], "Invalid Sec-WebSocket-Accept")
    /\ Parsed(h) /\ Len(arg[h]) < 28 /\ (\E i \in 1..Len(arg[h]) : arg[h][i] = 42)
    /\ IsErr(ret[h], "Invalid Sec-WebSocket-Accept")

\* C4: a call of new returns the token whose bytes are the SHA-1 digest of
\* the text of the key followed by the GUID; the token of the key
\* "dGhlIHNhbXBsZSBub25jZQ==" is <<179, 122, ...>>, and serialize and
\* fmt_header give "s3pPLMBiTxaQ9kYGzzhZRbK+xOo=" for it.
DeriveDigest ==
  /\ \A h \in Handshakes :
       Derived(h) =>
         /\ ret[h].kind = "Ok"
         /\ ret[h].val = Digest(arg[h].text \o MAGIC_GUID)
         /\ arg[h].text = TEST_KEY =>
              ret[h].val = <<179, 122, 79, 44, 192, 98, 79, 22, 144, 246, 70, 6, 207, 56, 89, 69, 178, 190, 196, 234>>
  /\ \A g \in Handshakes, h \in Handshakes :
       (/\ Derived(h) /\ arg[h].text = TEST_KEY
        /\ Serialized(g) \/ Formatted(g)
        /\ arg[g] = ret[h].val)
         => ret[g].val = TEST_ACCEPT

\* new has returned the token of the key of the test and serialize has
\* returned its text.
DeriveWitness ==
  \E g \in Handshakes, h \in Handshakes :
    /\ Derived(h) /\ arg[h].text = TEST_KEY
    /\ Serialized(g) /\ arg[g] = ret[h].val
    /\ ret[g].val = TEST_ACCEPT

IsByte(b) == b \in 0..255

\* C5: every token that a call has returned, and every token that is the
\* argument of a call, holds 20 bytes.
TwentyBytes ==
  \A h \in Handshakes :
    /\ ret[h].kind = "Ok" =>
         (Len(ret[h].val) = 20 /\ \A i \in 1..Len(ret[h].val) : IsByte(ret[h].val[i]))
    /\ op[h] \in {"serialize", "fmt_header"} =>
         (Len(arg[h]) = 20 /\ \A i \in 1..Len(arg[h]) : IsByte(arg[h][i]))

\* A token that new has returned and a token that from_str has returned.
TwentyBytesWitness ==
  \E g \in Handshakes, h \in Handshakes :
    /\ Derived(g) /\ ret[g].kind = "Ok" /\ Len(ret[g].val) = 20
    /\ Parsed(h) /\ ret[h].kind = "Ok" /\ Len(ret[h].val) = 20

\* C6: two calls of new on the same key that have returned have returned
\* the same token, and no call of new has returned anything but a token.
DeriveDeterministic ==
  /\ \A h \in Handshakes : Derived(h) => ret[h].kind = "Ok"
  /\ \A g \in Handshakes, h \in Handshakes :
       (Derived(g) /\ Derived(h) /\ arg[g] = arg[h]) => SameResult(ret[g], ret[h])

\* Two handshakes have derived the token of the same key.
DeriveDeterministicWitness ==
  \E g \in Handshakes, h \in Handshakes :
    /\ g # h /\ Derived(g) /\ Derived(h) /\ arg[g] = arg[h]
    /\ arg[g].text # TEST_KEY
    /\ SameResult(ret[g], ret[h])

\* C7: a token that from_str has returned holds the bytes that the decoding
\* of the text gives, all of them and in their order.
ParsedAsDecoded ==
  \A h \in Handshakes :
    (Parsed(h) /\ ret[h].kind = "Ok")
      => (Decode(arg[h]).ok /\ ret[h].val = Decode(arg[h]).bytes)

\* from_str has returned the token of "YSBzaW1wbGUgc2FtcGwgbm9uY2U=".
ParsedAsDecodedWitness ==
  \E h \in Handshakes :
    /\ Parsed(h) /\ arg[h] = TEST_20_BYTES /\ ret[h].kind = "Ok"
    /\ ret[h].val = <<97, 32, 115, 105, 109, 112, 108, 101, 32, 115, 97, 109, 112, 108, 32, 110, 111, 110, 99, 101>>

\* C8: two tokens that calls have returned compare equal exactly when they
\* hold the same bytes.
EqualityByBytes ==
  \A g \in Handshakes, h \in Handshakes :
    (Done(g) /\ Done(h) /\ ret[g].kind = "Ok" /\ ret[h].kind = "Ok")
      => (eq(ret[g].val, ret[h].val) <=> ret[g].val = ret[h].val)

\* A token of new and a token of from_str that compare equal.
EqualityWitness ==
  \E g \in Handshakes, h \in Handshakes :
    /\ Derived(g) /\ Parsed(h) /\ ret[g].kind = "Ok" /\ ret[h].kind = "Ok"
    /\ ret[g].val = ret[h].val
    /\ eq(ret[g].val, ret[h].val)

\* What a call of o on a returns when no other call runs.
Alone(o, a) ==
  CASE o = "new" -> Ok(Digest(ConcatKey(a)))
    [] o = "from_str" ->
         IF ~Decode(a).ok THEN ProtocolError(ERR_INVALID)
         ELSE IF WrongLength(Decode(a).bytes) THEN ProtocolError(ERR_LENGTH)
         ELSE CopyToArray(Decode(a).bytes)
    [] o = "serialize" -> String(serialize(a))
    [] o = "fmt_header" -> String(WriteDisplay(<<>>, serialize(a)))

\* C9: whatever the other handshakes do, a call that has returned has
\* returned what it returns alone on its argument, and the local buffer of
\* a call that has not holds what the call has put in it.
Interleaved ==
  \A h \in Handshakes :
    /\ Done(h) => SameResult(ret[h], Alone(op[h], arg[h]))
    /\ pc[h] = "new_digest" => buf[h] = ConcatKey(arg[h])
    /\ pc[h] = "from_str_copy" => buf[h] = Decode(arg[h]).bytes

\* A call of from_str has returned while a call of new of another handshake
\* was between its two steps.
InterleavedWitness ==
  \E g \in Handshakes, h \in Handshakes :
    /\ pc[g] = "new_digest"
    /\ Parsed(h) /\ ret[h].kind = "Ok"

\* A-Z, a-z, 0-9, '+', '/'
StdAlphabet ==
  <<65, 66, 67, 68, 69, 70, 71, 72, 73, 74, 75, 76, 77, 78, 79, 80, 81, 82, 83, 84, 85, 86, 87, 88, 89, 90,
    97, 98, 99, 100, 101, 102, 103, 104, 105, 106, 107, 108, 109, 110, 111, 112, 113, 114, 115, 116, 117, 118, 119, 120, 121, 122,
    48, 49, 50, 51, 52, 53, 54, 55, 56, 57, 43, 47>>

\* text is the padded encoding of 20 bytes in the standard alphabet: 28
\* bytes, of which the first 27 are symbols and the last is '='; four
\* symbols hold the 24 bits of three bytes, and the last three the 16 bits
\* of the last two bytes.
IsEncodingOf(text, bytes) ==
  LET v(j) == CHOOSE x \in 0..63 : StdAlphabet[x + 1] = text[j]
  IN /\ Len(text) = 28
     /\ text[28] = 61
     /\ \A j \in 1..27 : \E x \in 0..63 : StdAlphabet[x + 1] = text[j]
     /\ \A k \in 0..5 :
          (bytes[(3 * k) + 1] * 65536) + (bytes[(3 * k) + 2] * 256) + bytes[(3 * k) + 3]
            = (v((4 * k) + 1) * 262144) + (v((4 * k) + 2) * 4096) + (v((4 * k) + 3) * 64) + v((4 * k) + 4)
     /\ (bytes[19] * 65536) + (bytes[20] * 256)
          = (v(25) * 262144) + (v(26) * 4096) + (v(27) * 64)

\* C10: a call of serialize, and a call of fmt_header, on a token returns
\* the padded encoding of its 20 bytes in the standard alphabet, and two
\* calls on the same token return the same text.
SerializeCanonical ==
  /\ \A h \in Handshakes :
       (Serialized(h) \/ Formatted(h))
         => (ret[h].kind = "String" /\ IsEncodingOf(ret[h].val, arg[h]))
  /\ \A g \in Handshakes, h \in Handshakes :
       (/\ Serialized(g) \/ Formatted(g)
        /\ Serialized(h) \/ Formatted(h)
        /\ arg[g] = arg[h])
         => ret[g].val = ret[h].val

\* serialize and fmt_header have returned the text of the same token.
SerializeWitness ==
  \E g \in Handshakes, h \in Handshakes :
    /\ Serialized(g) /\ Formatted(h) /\ arg[g] = arg[h]
    /\ ret[g].val = ret[h].val
    /\ Len(ret[g].val) = 28 /\ ret[g].val[28] = 61 /\ ret[g].val[27] # 61

====
